---- MODULE Spec2Model ----
(***************************************************************************)
(* A model of the IP dashboard: the ip-proxy serverless function, the      *)
(* threat assessors, the visitor tracking tables with their row-level      *)
(* security policies and triggers, and the IP analysis session store.      *)
(***************************************************************************)
EXTENDS Integers, Sequences, FiniteSets, TLC

VARIABLES
    \* ---- netlify/functions/ip-proxy.js ----
    pc,         \* position of the handler: "idle", "fetching", "done"
    event,      \* the event of the current invocation: httpMethod and body
    upReqs,     \* bodies of the requests this invocation sent upstream
    upResp,     \* what the upstream API answered to this invocation
    resp,       \* the handler's return value: statusCode and body
    \* ---- the threat assessors ----
    tIn,        \* ipData, the entry being assessed
    tWho,       \* the assessor that ran last
    tOut,       \* its return value: threat and riskFactors
    \* ---- the visitor tracking tables (migration empty_violet) ----
    links,      \* ip_tracking_links
    logs,       \* visitor_ip_logs
    sessions,   \* visitor_sessions
    anomalies,  \* ip_anomaly_detection
    now,        \* now(), in half hours
    nextId,     \* the next gen_random_uuid()
    lastRequest, \* the latest request to the database API and the rows it reached
    page,       \* TrackingPage: the state of the component and of trackVisit
    \* ---- the IP analysis tables (migration throbbing_dune and later) ----
    migration,  \* the latest migration applied to their policies
    aSessions,  \* ip_analysis_sessions
    aResults,   \* ip_analysis_results
    ui,         \* per signed-in user: what IPAnalysisDB returned to IPAnalyzer
    \* ---- history of the ip-proxy endpoint ----
    served,     \* successive valid POSTs forwarded since one was last turned away
    \* ---- the React components ----
    app,        \* App and SystemDiagnostics: loading, user, activeTab
    pq,         \* PublicIPQuery: its state and the position of analyzeIP
    az,         \* IPAnalyzer: its state and the position of analyzeIP
    \* ---- AlertSystem and the table alert_notifications ----
    alerts,     \* the rows of alert_notifications
    alertCall,  \* the last call of AlertSystem: who called, when, and its result
    \* ---- concurrent inserts into visitor_ip_logs ----
    inflight    \* the INSERT transactions that have not committed yet

proxyVars == <<pc, event, upReqs, upResp, resp>>

threatVars == <<tIn, tWho, tOut>>

dbVars == <<links, logs, sessions, anomalies, now, nextId, lastRequest, page>>

trackVars == <<links, logs, sessions, anomalies, now, lastRequest, page>>

anVars == <<migration, aSessions, aResults, ui>>

burstVars == <<served>>

uiVars == <<app, pq, az>>

alertVars == <<alerts, alertCall>>

raceVars == <<inflight>>

vars == <<pc, event, upReqs, upResp, resp, tIn, tWho, tOut,
          links, logs, sessions, anomalies, now, nextId, lastRequest, page,
          migration, aSessions, aResults, ui, served, app, pq, az, alerts, alertCall, inflight>>

NULL == "NULL"

(***************************************************************************)
(* JSON.  A JSON text is modelled by the value it denotes plus its layout  *)
(* (ws: whether it carries insignificant whitespace); a text of kind       *)
(* "invalid" denotes nothing.  An object is a sequence of <<key, value>>   *)
(* members, an array a sequence of objects.                                *)
(***************************************************************************)

\* Longest array whose content is enumerated entry by entry.
MaxLen == 2
\* How far beyond the cap the enumerated long arrays go.
Over == 2
\* ip-proxy.js:45  requestBody.length > 50
MaxIPs == 50

Value(kind, items, members) == [kind |-> kind, items |-> items, members |-> members]

Text(value, ws) == [value |-> value, ws |-> ws]

InvalidText == [value |-> Value("invalid", <<>>, <<>>), ws |-> FALSE]

SeqsUpTo(S, n) == UNION {[1..k -> S] : k \in 0..n}

ArrayOf(items) == Value("array", items, <<>>)

ObjectOf(members) == Value("object", <<>>, members)

\* What JSON.parse throws for text that is not JSON.
SyntaxError == [kind |-> "SyntaxError", items |-> <<>>, members |-> <<>>]

Thrown(value) == value.kind = "SyntaxError"

\* JSON.parse: the value a text denotes.
JSONparse(text) ==
    IF text.value.kind = "invalid" THEN SyntaxError ELSE text.value

\* JSON.stringify: the compact text of a value.
JSONstringify(value) == Text(value, FALSE)

\* Array.isArray
IsArray(value) == value.kind = "array"

\* !requestBody : null (and an absent body, which parses as null) is falsy
Falsy(value) == value.kind = "null"

\* Request entries {query: <ip>} and upstream result entries.
Queries == {<<<<"query", "8.8.8.8">>>>, <<<<"query", "185.220.101.1">>>>}

Results == {<<<<"status", "success">>, <<"query", "8.8.8.8">>>>,
            <<<<"status", "fail">>, <<"query", "185.220.101.1">>>>}

LongArrays(S) == {[i \in 1..n |-> e] : n \in (MaxIPs - 1)..(MaxIPs + Over), e \in S}

NonArrayValues == {Value("null", <<>>, <<>>), Value("number", <<>>, <<>>),
                   Value("string", <<>>, <<>>),
                   ObjectOf(<<<<"query", "8.8.8.8">>>>)}

RequestTexts ==
    {Text(ArrayOf(a), w) : a \in SeqsUpTo(Queries, MaxLen), w \in BOOLEAN}
    \cup {Text(ArrayOf(a), FALSE) : a \in LongArrays(Queries)}
    \cup {Text(v, FALSE) : v \in NonArrayValues}
    \cup {InvalidText}

UpstreamTexts ==
    {Text(ArrayOf(a), w) : a \in SeqsUpTo(Results, MaxLen), w \in BOOLEAN}
    \cup {Text(ObjectOf(<<<<"message", "rate limited">>>>), FALSE)}
    \cup {InvalidText}

Methods == {"OPTIONS", "GET", "POST"}

\* Statuses of a response whose ok flag is false, and network failures.
NotOkStatuses == {"429", "500"}

NetworkErrors == {"ECONNREFUSED"}

NoResponse == [kind |-> "none", status |-> NULL, body |-> InvalidText, detail |-> NULL]

Response(status, body) == [statusCode |-> status, body |-> body]

NoReturn == [statusCode |-> 0, body |-> InvalidText]

EmptyBody == [value |-> Value("empty", <<>>, <<>>), ws |-> FALSE]

MethodNotAllowedInvalidBody ==
    JSONstringify(ObjectOf(<<<<"error", "Invalid request body. Expected array of IP queries.">>>>))

MethodNotAllowedBody == JSONstringify(ObjectOf(<<<<"error", "Method not allowed">>>>))

InvalidRequestBody ==
    JSONstringify(ObjectOf(<<<<"error", "Invalid request body. Expected array of IP queries.">>>>))

TooManyBody == JSONstringify(ObjectOf(<<<<"error", "Too many IPs. Maximum 50 allowed.">>>>))

LeakyErrorBody(detail) ==
    JSONstringify(ObjectOf(<<<<"error", "Internal server error">>, <<"message", detail>>>>))

\* The body of the catch block: the error is only logged.
InternalErrorBody(detail) ==
    JSONstringify(ObjectOf(<<<<"error", "Internal server error">>,
                             <<"message", "Failed to analyze IP addresses">>>>))

OffByOneTooMany(requestBody) == Len(requestBody.items) >= MaxIPs

\* ip-proxy.js:45
TooMany(requestBody) == Len(requestBody.items) > MaxIPs

\* ip-proxy.js:59  the body of the upstream request
ForwardBody(requestBody) == JSONstringify(requestBody)

ReturnAllButLast(data) ==
    JSONstringify(IF IsArray(data) /\ Len(data.items) > 0
                  THEN ArrayOf(SubSeq(data.items, 1, Len(data.items) - 1))
                  ELSE data)

\* ip-proxy.js:71  the body of the 200 response
ReturnBody(data) == JSONstringify(data)

ProxyInit ==
    /\ pc = "idle"
    /\ event = [httpMethod |-> "GET", body |-> InvalidText]
    /\ upReqs = <<>>
    /\ upResp = NoResponse
    /\ resp = NoReturn

\* exports.handler up to the first await (lines 4-60).
Invoke(method, body) ==
    /\ pc \in {"idle", "done"}
    /\ event' = [httpMethod |-> method, body |-> body]
    /\ upResp' = NoResponse
    /\ IF method = "OPTIONS"
       THEN /\ resp' = Response(200, EmptyBody)
            /\ pc' = "done" /\ upReqs' = <<>>
       ELSE IF method # "POST"
       THEN /\ resp' = Response(405, MethodNotAllowedBody)
            /\ pc' = "done" /\ upReqs' = <<>>
       ELSE LET requestBody == JSONparse(body) IN
            IF Thrown(requestBody)
            THEN /\ resp' = Response(500, InternalErrorBody("SyntaxError"))
                 /\ pc' = "done" /\ upReqs' = <<>>
            ELSE IF Falsy(requestBody) \/ ~IsArray(requestBody)
            THEN /\ resp' = Response(400, InvalidRequestBody)
                 /\ pc' = "done" /\ upReqs' = <<>>
            ELSE IF TooMany(requestBody)
            THEN /\ resp' = Response(400, TooManyBody)
                 /\ pc' = "done" /\ upReqs' = <<>>
            ELSE /\ upReqs' = <<ForwardBody(requestBody)>>
                 /\ resp' = NoReturn
                 /\ pc' = "fetching"

\* The rest of the handler (lines 62-85), run when fetch settles with r.
Settle(r) ==
    /\ pc = "fetching"
    /\ upResp' = r
    /\ UNCHANGED <<event, upReqs>>
    /\ pc' = "done"
    /\ IF r.kind # "ok"
       THEN resp' = Response(500, InternalErrorBody(r.detail))
       ELSE LET data == JSONparse(r.body) IN
            IF Thrown(data)
            THEN resp' = Response(500, InternalErrorBody("SyntaxError"))
            ELSE resp' = Response(200, ReturnBody(data))

\* fetch resolves with a 2xx response
UpstreamOk ==
    \E t \in UpstreamTexts :
        Settle([kind |-> "ok", status |-> "200", body |-> t, detail |-> NULL])

\* fetch resolves with a response whose ok is false
UpstreamNotOk ==
    \E s \in NotOkStatuses :
        Settle([kind |-> "notok", status |-> s, body |-> InvalidText, detail |-> s])

\* fetch rejects
UpstreamNetworkError ==
    \E e \in NetworkErrors :
        Settle([kind |-> "neterr", status |-> NULL, body |-> InvalidText, detail |-> e])

HandlerInvoke == \E m \in Methods, b \in RequestTexts : Invoke(m, b)

\* Longest burst of successive valid POSTs that is followed.
MaxBurst == 3

\* A POST whose body is an array of at most 50 entries.
ValidPost(e) ==
    /\ e.httpMethod = "POST"
    /\ IsArray(JSONparse(e.body))
    /\ ~TooMany(JSONparse(e.body))

BurstIdle == served = 0

\* One more invocation of the handler, with the burst it belongs to: the
\* handler keeps no state between invocations (no module-level variable,
\* no store), so served is history only.
BurstInvoke ==
    /\ served < MaxBurst
    /\ HandlerInvoke
    /\ served' = IF ~ValidPost(event') THEN served
                 ELSE IF pc' = "fetching" THEN served + 1
                 ELSE 0

ProxyNext ==
    \/ HandlerInvoke
    \/ UpstreamOk
    \/ UpstreamNotOk
    \/ UpstreamNetworkError


(***************************************************************************)
(* The threat assessors.  An IP address is its sequence of octets, a name  *)
(* (asname, isp, org) its sequence of characters, so that startsWith,      *)
(* includes and the regular expressions are computed, not assumed.         *)
(***************************************************************************)

\* String.prototype.startsWith on 'a.b.' prefixes, and /^a\./ patterns
StartsWith(ip, prefix) ==
    /\ Len(prefix) <= Len(ip)
    /\ SubSeq(ip, 1, Len(prefix)) = prefix

\* String.prototype.includes; an undefined name (?.) gives undefined, falsy
Includes(hay, needle) ==
    /\ hay # NULL
    /\ \E i \in 0..(Len(hay) - Len(needle)) : SubSeq(hay, i + 1, i + Len(needle)) = needle

\* list.some(range => ip.startsWith(range)), list.some(pattern => pattern.test(ip))
AnyPrefix(ip, list) == \E i \in 1..Len(list) : StartsWith(ip, list[i])

\* list.some(s => name?.includes(s))
AnyIncluded(name, list) == \E i \in 1..Len(list) : Includes(name, list[i])

\* IPAnalyzer.tsx:50-55
suspiciousPatterns == << <<95, 223>>, <<185>>, <<46>>, <<109>> >>

\* IPAnalyzer.tsx:58-60
isSuspiciousIP(ip) == AnyPrefix(ip, suspiciousPatterns)

\* IPAnalyzer.tsx:92, PublicIPQuery.tsx:141
suspiciousASNs ==
    <<<<"L", "e", "a", "s", "e", "W", "e", "b">>,
      <<"O", "V", "H">>,
      <<"D", "i", "g", "i", "t", "a", "l", "O", "c", "e", "a", "n">>,
      <<"A", "m", "a", "z", "o", "n">>,
      <<"G", "o", "o", "g", "l", "e", " ", "C", "l", "o", "u", "d">>,
      <<"M", "i", "c", "r", "o", "s", "o", "f", "t", " ", "A", "z", "u", "r", "e">>>>

\* IPAnalyzer.tsx:99
vpnIndicators ==
    <<<<"V", "P", "N">>,
      <<"P", "r", "o", "x", "y">>,
      <<"A", "n", "o", "n", "y", "m", "o", "u", "s">>,
      <<"P", "r", "i", "v", "a", "c", "y">>>>

\* PublicIPQuery.tsx:67-71
knownBadIPs == {<<95, 223, 57, 198>>, <<185, 220, 101, 1>>, <<46, 166, 139, 111>>}

\* PublicIPQuery.tsx:86, part_003 (visitorTracking) isSuspiciousRange / isVPNServer
vpnRanges == << <<95, 223>>, <<185, 220>>, <<46, 166>> >>

\* PublicIPQuery.tsx:87
torExitNodes == {<<185, 220, 101, 1>>, <<46, 166, 139, 111>>}

\* PublicIPQuery.tsx:65-81
checkBlacklist(ip) == [isBlacklisted |-> ip \in knownBadIPs]

\* PublicIPQuery.tsx:84-99
checkVPNTor(ip) ==
    LET isVPN == AnyPrefix(ip, vpnRanges)
        isTor == ip \in torExitNodes
    IN  [isVPN |-> isVPN, isTor |-> isTor, isProxy |-> isVPN \/ isTor]

\* PublicIPQuery.tsx:148
highRiskCountries == {"CN", "RU", "KP", "IR"}

\* visitorTracking isSuspiciousRange
isSuspiciousRange(ip) == AnyPrefix(ip, vpnRanges)

\* visitorTracking isTorExitNode
isTorExitNode(ip) ==
    ip \in {<<185, 220, 101, 1>>, <<46, 166, 139, 111>>, <<95, 223, 57, 198>>}

\* visitorTracking isVPNServer
isVPNServer(ip) == AnyPrefix(ip, vpnRanges)

\* One "if (check) { riskFactors.push(label); riskScore += weight }" statement.
Check(fires, label, weight) == [fires |-> fires, label |-> label, weight |-> weight]

\* The statements run in order on riskFactors = [] and riskScore = 0.
RECURSIVE RunChecks(_, _)
RunChecks(checks, acc) ==
    IF checks = <<>> THEN acc
    ELSE LET c == Head(checks) IN
         RunChecks(Tail(checks),
                   IF c.fires
                   THEN [riskFactors |-> Append(acc.riskFactors, c.label),
                         riskScore |-> acc.riskScore + c.weight]
                   ELSE acc)

NoRisk == [riskFactors |-> <<>>, riskScore |-> 0]

\* IPAnalyzer.tsx:67-103
IPAnalyzerChecks(ipData) ==
    << Check(isSuspiciousIP(ipData.query), "suspicious IP range", 3),
       Check(ipData.hosting, "datacenter/hosting", 2),
       Check(ipData.proxy, "proxy server", 3),
       Check(ipData.mobile, "mobile network", 1),
       Check(AnyIncluded(ipData.asname, suspiciousASNs),
             "cloud provider", 2),
       Check(\E i \in 1..Len(vpnIndicators) :
                 \/ Includes(ipData.isp, vpnIndicators[i])
                 \/ Includes(ipData.org, vpnIndicators[i]),
             "VPN/anonymous service", 3) >>

IPAnalyzerThreatStrict(riskScore) ==
    IF riskScore > 5 THEN "high" ELSE IF riskScore >= 2 THEN "medium" ELSE "low"

\* IPAnalyzer.tsx:106-108
IPAnalyzerThreat(riskScore) ==
    IF riskScore >= 5 THEN "high" ELSE IF riskScore >= 2 THEN "medium" ELSE "low"

\* IPAnalyzer.tsx:63-109
IPAnalyzer_assessThreatLevel(ipData) ==
    LET r == RunChecks(IPAnalyzerChecks(ipData), NoRisk)
    IN  [threat |-> IPAnalyzerThreat(r.riskScore), riskFactors |-> r.riskFactors]

\* PublicIPQuery.tsx:114-152; the Tor / VPN / proxy tests are one else-if chain
PublicIPQueryChecks(ipData) ==
    LET blacklistStatus == checkBlacklist(ipData.query)
        vpnTorStatus == checkVPNTor(ipData.query)
    IN  << Check(blacklistStatus.isBlacklisted, "known malicious IP", 5),
           IF vpnTorStatus.isTor THEN Check(TRUE, "Tor exit node", 4)
           ELSE IF vpnTorStatus.isVPN THEN Check(TRUE, "VPN server", 3)
           ELSE Check(vpnTorStatus.isProxy, "proxy server", 2),
           Check(ipData.hosting, "datacenter/hosting", 2),
           Check(AnyIncluded(ipData.asname, suspiciousASNs),
                 "cloud provider", 2),
           Check(ipData.countryCode \in highRiskCountries, "high-risk region", 1) >>

\* PublicIPQuery.tsx:155-157
PublicIPQueryThreat(riskScore) ==
    IF riskScore >= 5 THEN "high" ELSE IF riskScore >= 2 THEN "medium" ELSE "low"

\* PublicIPQuery.tsx:110-158
PublicIPQuery_assessThreatLevel(ipData) ==
    LET r == RunChecks(PublicIPQueryChecks(ipData), NoRisk)
    IN  [threat |-> PublicIPQueryThreat(r.riskScore), riskFactors |-> r.riskFactors]

\* part_003 (visitorTracking.ts):262-290
VisitorTrackingChecks(ipData) ==
    << Check(isSuspiciousRange(ipData.query), "suspicious IP range", 3),
       Check(ipData.hosting, "datacenter/hosting", 2),
       Check(ipData.proxy, "proxy server", 3),
       Check(isTorExitNode(ipData.query), "Tor exit node", 4),
       Check(isVPNServer(ipData.query), "VPN server", 3) >>

\* part_003:293-295
VisitorTrackingThreat(riskScore) ==
    IF riskScore >= 5 THEN "high" ELSE IF riskScore >= 2 THEN "medium" ELSE "low"

\* part_003:258-296
VisitorTrackingDB_assessThreatLevel(ipData) ==
    LET r == RunChecks(VisitorTrackingChecks(ipData), NoRisk)
    IN  [threat |-> VisitorTrackingThreat(r.riskScore), riskFactors |-> r.riskFactors]

\* Inputs of the assessors: entries of the geolocation response.
SampleIPs ==
    {<<8, 8, 8, 8>>, <<185, 220, 101, 1>>, <<95, 223, 57, 198>>,
     <<95, 223, 1, 1>>, <<185, 1, 1, 1>>, <<109, 1, 1, 1>>}

SampleASNames == {NULL, <<"O", "V", "H", " ", "S", "A", "S">>, <<"C", "O", "M", "C", "A", "S", "T", "-", "7", "9", "2", "2">>}

SampleISPs == {<<"N", "o", "r", "d", "V", "P", "N">>, <<"C", "o", "m", "c", "a", "s", "t">>}

SampleOrgs == {NULL, <<"P", "r", "o", "x", "y", " ", "I", "n", "c">>}

SampleCountryCodes == {"US", "CN"}

IpDatas ==
    [query : SampleIPs, hosting : BOOLEAN, proxy : BOOLEAN, mobile : BOOLEAN,
     asname : SampleASNames, isp : SampleISPs, org : SampleOrgs,
     countryCode : SampleCountryCodes]

Assessors == {"IPAnalyzer", "PublicIPQuery", "VisitorTrackingDB"}

NoAssessment == [threat |-> "none", riskFactors |-> <<>>]

ThreatIdle ==
    /\ tIn = CHOOSE d \in IpDatas : TRUE
    /\ tWho = "none"
    /\ tOut = NoAssessment

ThreatInit ==
    /\ tIn \in IpDatas
    /\ tWho = "none"
    /\ tOut = NoAssessment

AssessIPAnalyzer ==
    /\ tWho' = "IPAnalyzer"
    /\ tOut' = IPAnalyzer_assessThreatLevel(tIn)
    /\ UNCHANGED tIn

AssessPublicIPQuery ==
    /\ tWho' = "PublicIPQuery"
    /\ tOut' = PublicIPQuery_assessThreatLevel(tIn)
    /\ UNCHANGED tIn

AssessVisitorTracking ==
    /\ tWho' = "VisitorTrackingDB"
    /\ tOut' = VisitorTrackingDB_assessThreatLevel(tIn)
    /\ UNCHANGED tIn

ThreatNext ==
    \/ AssessIPAnalyzer
    \/ AssessPublicIPQuery
    \/ AssessVisitorTracking

(***************************************************************************)
(* The visitor tracking tables, their row-level security policies and      *)
(* their triggers.  Time is counted in half hours.                         *)
(***************************************************************************)

\* Rows of ip_tracking_links that may exist at once.
MaxLinks == 1
\* Rows of visitor_ip_logs that may exist at once.
MaxLogs == 2
\* The last id a new tracking link may take.
MaxId == 2
\* The last tick of the clock.
MaxTime == 2
\* interval '1 hour', in half hours (empty_violet.sql:279)
OneHour == 2
\* distance_km > 500 (empty_violet.sql:279)
MaxKm == 500
\* anomaly_count * 25.0 (empty_violet.sql:299)
ScorePerAnomaly == 25
\* LEAST(..., 100.0) (empty_violet.sql:299)
MaxScore == 100

Users == {"u1", "u2"}

Anon == [role |-> "anon", uid |-> NULL]

Authenticated(u) == [role |-> "authenticated", uid |-> u]

\* Who can call the database API: the anon key, or a signed-in user's token.
Callers == {Anon} \cup {Authenticated(u) : u \in Users}

\* SQL "a = b" on text and uuid-as-text values: true only when both are
\* non-null and equal.  (Row ids are numbers here and never null.)
SqlEq(a, b) == a # NULL /\ b # NULL /\ a = b

\* A record variable or a .single() result that holds no row.
NoRow == <<>>

\* SQL NULL in a timestamptz or integer column.
NULLnum == -1

\* SELECT id FROM ip_tracking_links WHERE user_id = auth.uid(), as caller c
OwnLinkIds(c) == {l.id : l \in {x \in links : SqlEq(x.user_id, c.uid)}}

\* Policy on ip_tracking_links: FOR ALL TO authenticated USING / WITH CHECK
LinksPolicy(c, row) == c.role = "authenticated" /\ SqlEq(c.uid, row.user_id)

\* Policies on visitor_ip_logs
LogsSelectPolicy(c, row) ==
    c.role = "authenticated" /\ row.tracking_link_id \in OwnLinkIds(c)

LogsInsertPolicy(c, row) == c.role = "anon"

LogsUpdatePolicy(c, row) == FALSE

LogsDeletePolicy(c, row) == FALSE

\* Policies on visitor_sessions: SELECT for the owner, ALL for anon
SessionsSelectPolicy(c, row) ==
    \/ c.role = "authenticated" /\ row.tracking_link_id \in OwnLinkIds(c)
    \/ c.role = "anon"

SessionsWritePolicy(c, row) == c.role = "anon"

\* Policies on ip_anomaly_detection
AnomaliesSelectPolicy(c, row) ==
    c.role = "authenticated" /\ row.tracking_link_id \in OwnLinkIds(c)

AnomaliesInsertPolicy(c, row) == c.role = "anon"

AnomaliesWritePolicy(c, row) == FALSE

TrackingTables == {"visitor_ip_logs", "visitor_sessions", "ip_anomaly_detection"}

TableRows(t) ==
    IF t = "visitor_ip_logs" THEN logs
    ELSE IF t = "visitor_sessions" THEN sessions
    ELSE anomalies

\* The rows of table t that a SELECT by caller c returns.
Selectable(c, t) ==
    IF t = "visitor_ip_logs" THEN {r \in logs : LogsSelectPolicy(c, r)}
    ELSE IF t = "visitor_sessions" THEN {r \in sessions : SessionsSelectPolicy(c, r)}
    ELSE {r \in anomalies : AnomaliesSelectPolicy(c, r)}

\* The rows of table t that an UPDATE or DELETE by caller c reaches.
Writable(c, t) ==
    IF t = "visitor_ip_logs" THEN {r \in logs : LogsDeletePolicy(c, r)}
    ELSE IF t = "visitor_sessions" THEN {r \in sessions : SessionsWritePolicy(c, r)}
    ELSE {r \in anomalies : AnomaliesWritePolicy(c, r)}

\* link_code: unique, generated with the row
LinkCode(id) == <<"code", id>>

\* The options of createTrackingLink that the model draws from.
LinkOptions ==
    {[expires_at |-> NULLnum, collect_user_agent |-> TRUE, collect_referrer |-> TRUE,
      max_visits |-> NULLnum],
     [expires_at |-> 1, collect_user_agent |-> FALSE, collect_referrer |-> TRUE,
      max_visits |-> 1],
     [expires_at |-> NULLnum, collect_user_agent |-> TRUE, collect_referrer |-> FALSE,
      max_visits |-> NULLnum]}

\* VisitorTrackingDB.createTrackingLink, called by c
CreateTrackingLink(c, options) ==
    /\ Cardinality(links) < MaxLinks
    /\ nextId <= MaxId
    /\ c.role = "authenticated"
    /\ LET row == [id |-> nextId, user_id |-> c.uid, link_code |-> LinkCode(nextId),
                   is_active |-> TRUE, expires_at |-> options.expires_at,
                   collect_user_agent |-> options.collect_user_agent,
                   collect_referrer |-> options.collect_referrer,
                   max_visits |-> options.max_visits]
       IN  /\ LinksPolicy(c, row)
           /\ links' = links \cup {row}
           /\ nextId' = nextId + 1
    /\ UNCHANGED <<logs, sessions, anomalies, now, lastRequest, page>>

\* VisitorTrackingDB.updateTrackingLink(linkId, {is_active}), called by c
UpdateTrackingLink(c, linkId, active) ==
    /\ \E l \in links :
          /\ l.id = linkId
          /\ LinksPolicy(c, l)
          /\ l.is_active # active
          /\ links' = (links \ {l}) \cup {[l EXCEPT !.is_active = active]}
    /\ UNCHANGED <<logs, sessions, anomalies, now, nextId, lastRequest, page>>

\* VisitorTrackingDB.deleteTrackingLink, called by c; ON DELETE CASCADE
DeleteTrackingLink(c, linkId) ==
    /\ \E l \in links :
          /\ l.id = linkId
          /\ LinksPolicy(c, l)
          /\ links' = links \ {l}
    /\ LET gone == {r \in logs : r.tracking_link_id = linkId} IN
       /\ logs' = logs \ gone
       /\ anomalies' = {a \in anomalies :
                           /\ a.tracking_link_id # linkId
                           /\ a.visitor_log_id \notin {r.id : r \in gone}}
    /\ sessions' = {r \in sessions : r.tracking_link_id # linkId}
    /\ UNCHANGED <<now, nextId, lastRequest, page>>

\* The clock advances by half an hour.
Tick ==
    /\ now < MaxTime
    /\ now' = now + 1
    /\ UNCHANGED <<links, logs, sessions, anomalies, nextId, lastRequest, page>>

(***************************************************************************)
(* INSERT INTO visitor_ip_logs with its BEFORE and AFTER row triggers.     *)
(***************************************************************************)

\* (latitude, longitude) of a row, named by the city; NULL when both are null
Locations == {"Beijing", "Tianjin", "Shanghai"}

\* 6371 * acos(...) of empty_violet.sql:272-276 for the coordinates of the
\* three cities, rounded to km.
DistanceKm(a, b) ==
    IF a = b THEN 0
    ELSE IF {a, b} = {"Beijing", "Tianjin"} THEN 103
    ELSE IF {a, b} = {"Beijing", "Shanghai"} THEN 1067
    ELSE 976

\* One IF ... INSERT INTO ip_anomaly_detection ... block of the trigger.
AnomalyChecks(new, prev_visit) ==
    << [fires |-> new.is_tor, type |-> "tor_usage", severity |-> "high"],
       [fires |-> new.is_vpn, type |-> "vpn_usage", severity |-> "medium"],
       [fires |-> new.is_hosting, type |-> "datacenter_ip", severity |-> "medium"],
       [fires |-> /\ prev_visit # NoRow
                  /\ new.location # NULL
                  /\ new.created_at - prev_visit.created_at < OneHour
                  /\ DistanceKm(prev_visit.location, new.location) > MaxKm,
        type |-> "rapid_location_change", severity |-> "high"] >>

\* The candidates of SELECT * INTO prev_visit ... ORDER BY created_at DESC
\* LIMIT 1, run with the rights of caller c: the latest of the rows c may see.
PrevVisitChoices(c, new) ==
    LET seen == {l \in Selectable(c, "visitor_ip_logs") :
                    /\ l.tracking_link_id = new.tracking_link_id
                    /\ SqlEq(l.session_id, new.session_id)
                    /\ l.id # new.id
                    /\ l.location # NULL}
    IN  IF seen = {} THEN {NoRow}
        ELSE {l \in seen : \A m \in seen : m.created_at <= l.created_at}

\* The foreign key of ip_anomaly_detection.visitor_log_id, checked at the end
\* of the INSERT statement inside the trigger against the rows stored so far.
AnomalyInsertOk(c, row) ==
    /\ AnomaliesInsertPolicy(c, row)
    /\ row.visitor_log_id \in {l.id : l \in logs}
    /\ row.tracking_link_id \in {l.id : l \in links}

AnomalyScoreOffByOne(anomaly_count) ==
    IF (anomaly_count + 1) * ScorePerAnomaly < MaxScore
    THEN (anomaly_count + 1) * ScorePerAnomaly ELSE MaxScore

\* LEAST(anomaly_count * 25.0, 100.0)
AnomalyScore(anomaly_count) ==
    IF anomaly_count * ScorePerAnomaly < MaxScore
    THEN anomaly_count * ScorePerAnomaly ELSE MaxScore

\* detect_ip_anomalies(), BEFORE INSERT, run as caller c with prev_visit
\* selected: the row to store, the anomaly rows inserted, and whether one of
\* the inserts raised an error.
RECURSIVE RunAnomalyChecks(_, _, _, _)
RunAnomalyChecks(c, new, checks, acc) ==
    IF checks = <<>> \/ acc.error THEN acc
    ELSE LET k == Head(checks)
             row == [id |-> <<new.id, k.type>>, visitor_log_id |-> new.id,
                     tracking_link_id |-> new.tracking_link_id,
                     anomaly_type |-> k.type, severity |-> k.severity]
         IN  RunAnomalyChecks(c, new, Tail(checks),
                 IF ~k.fires THEN acc
                 ELSE IF ~AnomalyInsertOk(c, row) THEN [acc EXCEPT !.error = TRUE]
                 ELSE [acc EXCEPT !.rows = @ \cup {row}, !.anomaly_count = @ + 1])

detect_ip_anomalies(c, new, prev_visit) ==
    LET r == RunAnomalyChecks(c, new, AnomalyChecks(new, prev_visit),
                              [rows |-> {}, anomaly_count |-> 0, error |-> FALSE])
    IN  [error |-> r.error,
         rows |-> r.rows,
         new |-> [new EXCEPT !.anomaly_score = AnomalyScore(r.anomaly_count),
                             !.is_suspicious = r.anomaly_count > 0]]

\* NEW.ip_address::text: the address and its netmask length, '8.8.8.8/32'
InetText(ip) == ip \o <<32>>

\* SQL NULL as an element of unique_ips, whose elements are InetText values.
NULLtext == <<>>

\* CASE WHEN x = ANY(arr) THEN arr ELSE array_append(arr, x) END, then
\* array_append(..., NULL); null is the NULL of the element type.
AppendUnique(arr, x, null) ==
    Append(IF \E i \in 1..Len(arr) : arr[i] # null /\ x # null /\ arr[i] = x
           THEN arr ELSE Append(arr, x),
           null)

\* update_visitor_session(), AFTER INSERT, run as caller c with
\* session_record selected: the new content of visitor_sessions, or an error.
update_visitor_session(c, new, session_record) ==
    IF session_record # NoRow
    THEN [error |-> FALSE,
          sessions |->
            {IF r.id = session_record.id /\ SessionsWritePolicy(c, r)
             THEN [r EXCEPT !.last_visit = new.created_at,
                            !.total_visits = @ + 1,
                            !.unique_ips = AppendUnique(@, InetText(new.ip_address), NULLtext),
                            !.countries = AppendUnique(@, new.country, NULL),
                            !.user_agents = AppendUnique(@, new.user_agent, NULL),
                            !.is_suspicious = @ \/ new.is_suspicious]
             ELSE r : r \in sessions}]
    ELSE LET row == [id |-> <<"session", new.id>>,
                     tracking_link_id |-> new.tracking_link_id,
                     session_id |-> new.session_id,
                     ip_address |-> new.ip_address,
                     first_visit |-> new.created_at, last_visit |-> new.created_at,
                     total_visits |-> 1,
                     unique_ips |-> <<InetText(new.ip_address)>>,
                     countries |-> <<new.country>>,
                     user_agents |-> <<new.user_agent>>,
                     is_suspicious |-> new.is_suspicious]
         IN  [error |-> ~SessionsWritePolicy(c, row) \/ new.session_id = NULL,
              sessions |-> sessions \cup {row}]

\* The rows SELECT * INTO session_record may return, as caller c.
SessionRecordChoices(c, new) ==
    LET seen == {r \in Selectable(c, "visitor_sessions") :
                    /\ r.tracking_link_id = new.tracking_link_id
                    /\ SqlEq(r.session_id, new.session_id)}
    IN  IF seen = {} THEN {NoRow} ELSE seen

\* The columns of a new row that the client does not send.
WithDefaults(row) ==
    [id |-> nextId, created_at |-> now, is_suspicious |-> FALSE, anomaly_score |-> 0,
     tracking_link_id |-> row.tracking_link_id, ip_address |-> row.ip_address,
     user_agent |-> row.user_agent, referrer |-> row.referrer,
     session_id |-> row.session_id, country |-> row.country,
     location |-> row.location, is_hosting |-> row.is_hosting,
     is_tor |-> row.is_tor, is_vpn |-> row.is_vpn, threat_level |-> row.threat_level]

\* One INSERT INTO visitor_ip_logs statement by caller c, with or without
\* RETURNING (.select()).  It is one transaction: the BEFORE trigger, the
\* policies and foreign key of the new row, the row, the AFTER trigger; an
\* error anywhere leaves the tables as they were.
InsertVisitorLog(c, row, returning) ==
    LET new0 == WithDefaults(row) IN
    \E prev_visit \in PrevVisitChoices(c, new0) :
        LET before == detect_ip_anomalies(c, new0, prev_visit)
            new == before.new
            rowOk == /\ LogsInsertPolicy(c, new)
                     /\ returning => LogsSelectPolicy(c, new)
                     /\ new.tracking_link_id \in {l.id : l \in links}
        IN  \E session_record \in SessionRecordChoices(c, new) :
                LET after == update_visitor_session(c, new, session_record)
                    ok == ~before.error /\ rowOk /\ ~after.error
                IN  /\ lastRequest' = [caller |-> c, table |-> "visitor_ip_logs",
                                       op |-> "insert", returning |-> returning,
                                       flagged |-> row.is_tor \/ row.is_vpn \/ row.is_hosting,
                                       rows |-> IF ok THEN {new} ELSE {}]
                    /\ nextId' = IF ok THEN nextId + 1 ELSE nextId
                    /\ IF ok
                       THEN /\ logs' = logs \cup {new}
                            /\ anomalies' = anomalies \cup before.rows
                            /\ sessions' = after.sessions
                       ELSE UNCHANGED <<logs, anomalies, sessions>>

(***************************************************************************)
(* VisitorTrackingDB.logVisitorIP and TrackingPage.                        *)
(***************************************************************************)

\* Addresses a visitor may come from; 0.0.0.0 is TrackingPage's fallback.
VisitorIPs == {<<185, 220, 101, 1>>, <<0, 0, 0, 0>>}

SessionIds == {"s1", "s2"}

\* The entries the proxy may return for an address with status 'success'.
GeoData(ip) ==
    {[query |-> ip, country |-> "CN", location |-> loc, hosting |-> h, proxy |-> FALSE] :
        loc \in {"Beijing", "Shanghai"}, h \in BOOLEAN}

\* analyzeIPAddress when the request fails or status is not 'success'
UnknownAnalysis ==
    [country |-> NULL, location |-> NULL, is_hosting |-> FALSE, is_tor |-> FALSE,
     is_vpn |-> FALSE, threat_level |-> "unknown"]

\* analyzeIPAddress: the columns it returns for address ip
analyzeIPAddress(ip) ==
    {UnknownAnalysis} \cup
    {[country |-> d.country, location |-> d.location, is_hosting |-> d.hosting,
      is_tor |-> isTorExitNode(ip), is_vpn |-> isVPNServer(ip),
      threat_level |-> VisitorTrackingDB_assessThreatLevel(d).threat] : d \in GeoData(ip)}

\* The row logVisitorIP sends: its arguments and ...ipAnalysis
LogRow(trackingLinkId, ip, user_agent, referrer, session_id, ipAnalysis) ==
    [tracking_link_id |-> trackingLinkId, ip_address |-> ip, user_agent |-> user_agent,
     referrer |-> referrer, session_id |-> session_id,
     country |-> ipAnalysis.country, location |-> ipAnalysis.location,
     is_hosting |-> ipAnalysis.is_hosting, is_tor |-> ipAnalysis.is_tor,
     is_vpn |-> ipAnalysis.is_vpn, threat_level |-> ipAnalysis.threat_level]

NoRequest ==
    [caller |-> Anon, table |-> NULL, op |-> NULL, returning |-> FALSE, flagged |-> FALSE,
     rows |-> {}]

PageIdle ==
    [pc |-> "idle", caller |-> Anon, code |-> <<>>, link |-> NoRow, error |-> NULL,
     isLoading |-> TRUE, eligible |-> FALSE, stored |-> 0, sent |-> NoRow]

\* A link is usable at the time it is visited: active and not expired.
Usable(l) == l.is_active /\ ~(l.expires_at # NULLnum /\ l.expires_at < now)

\* Without the filter on is_active.
getTrackingLinkByCodeAnyState(c, linkCode) ==
    LET rows == {l \in links : LinksPolicy(c, l) /\ l.link_code = linkCode}
    IN  IF Cardinality(rows) = 1 THEN CHOOSE l \in rows : TRUE ELSE NoRow

\* VisitorTrackingDB.getTrackingLinkByCode as caller c: the rows the policy
\* lets c see, filtered by code and is_active; .single() gives the row, or
\* null when there is none (PGRST116).
getTrackingLinkByCode(c, linkCode) ==
    LET rows == {l \in links : LinksPolicy(c, l) /\ l.link_code = linkCode /\ l.is_active}
    IN  IF Cardinality(rows) = 1 THEN CHOOSE l \in rows : TRUE ELSE NoRow

\* TrackingPage mounts for /track/<code>, opened by caller c: trackVisit up to
\* the expiry check (part_005:13-38).
PageVisit(c, code) ==
    /\ page.pc \in {"idle", "done"}
    /\ LET link == getTrackingLinkByCode(c, code)
           opened == [PageIdle EXCEPT !.caller = c, !.code = code,
                         !.eligible = \E l \in links : l.link_code = code /\ Usable(l)]
       IN  IF link = NoRow
           THEN page' = [opened EXCEPT !.pc = "done", !.error = "not found",
                                       !.isLoading = FALSE]
           ELSE IF link.expires_at # NULLnum /\ link.expires_at < now
           THEN page' = [opened EXCEPT !.pc = "done", !.link = link,
                                       !.error = "expired", !.isLoading = FALSE]
           ELSE page' = [opened EXCEPT !.pc = "log", !.link = link]
    /\ UNCHANGED <<links, logs, sessions, anomalies, now, nextId, lastRequest>>

CollectedAlways(flag, value) == value

\* link.collect_user_agent ? userAgent : undefined, and the same for the
\* referrer; an undefined field is left out of the request and stored as NULL
Collected(flag, value) == IF flag THEN value ELSE NULL

\* The rest of trackVisit (part_005:40-81): the visitor's address, the session
\* id, logVisitorIP, whose result is not looked at, and the finally block.
PageLog ==
    /\ page.pc = "log"
    /\ Cardinality(logs) < MaxLogs
    /\ \E ip \in VisitorIPs, sid \in SessionIds :
       \E ipAnalysis \in analyzeIPAddress(ip) :
          LET link == page.link
              row == LogRow(link.id, ip,
                            Collected(link.collect_user_agent, "UA"),
                            Collected(link.collect_referrer, "REF"),
                            sid, ipAnalysis)
          IN  /\ InsertVisitorLog(page.caller, row, TRUE)
              /\ page' = [page EXCEPT !.pc = "done", !.isLoading = FALSE, !.sent = row,
                                      !.stored = Cardinality(lastRequest'.rows)]
    /\ UNCHANGED <<links, now>>

\* A request to the REST API with the key or token of caller c that inserts
\* a row as logVisitorIP builds it, without asking for the row back.
ApiInsertLog(c) ==
    /\ Cardinality(logs) < MaxLogs
    /\ \E l \in links, ip \in VisitorIPs, sid \in SessionIds :
       \E ipAnalysis \in analyzeIPAddress(ip) :
          InsertVisitorLog(c, LogRow(l.id, ip, "UA", NULL, sid, ipAnalysis), FALSE)
    /\ UNCHANGED <<links, now, page>>

\* getVisitorLogs / getVisitorSessions / getAnomalyDetections, or any select
\* on table t through the API, as caller c
ApiSelect(c, t) ==
    /\ lastRequest' = [NoRequest EXCEPT !.caller = c, !.table = t, !.op = "select",
                                        !.rows = Selectable(c, t)]
    /\ UNCHANGED <<links, logs, sessions, anomalies, now, nextId, page>>

\* A delete on table t through the API as caller c
ApiDelete(c, t) ==
    /\ \E r \in Writable(c, t) :
          /\ lastRequest' = [NoRequest EXCEPT !.caller = c, !.table = t, !.op = "delete",
                                              !.rows = {r}]
          /\ logs' = IF t = "visitor_ip_logs" THEN logs \ {r} ELSE logs
          /\ sessions' = IF t = "visitor_sessions" THEN sessions \ {r} ELSE sessions
          /\ anomalies' = IF t = "ip_anomaly_detection" THEN anomalies \ {r}
                          ELSE IF t = "visitor_ip_logs"
                          THEN {a \in anomalies : a.visitor_log_id # r.id}
                          ELSE anomalies
    /\ UNCHANGED <<links, now, nextId, page>>

\* An update of is_suspicious on table visitor_sessions through the API
ApiUpdateSession(c) ==
    /\ \E r \in Writable(c, "visitor_sessions") :
          /\ ~r.is_suspicious
          /\ lastRequest' = [NoRequest EXCEPT !.caller = c, !.table = "visitor_sessions",
                                              !.op = "update", !.rows = {r}]
          /\ sessions' = (sessions \ {r}) \cup {[r EXCEPT !.is_suspicious = TRUE]}
    /\ UNCHANGED <<links, logs, anomalies, now, nextId, page>>

DbInit ==
    /\ links = {}
    /\ logs = {}
    /\ sessions = {}
    /\ anomalies = {}
    /\ now = 0
    /\ nextId = 1
    /\ lastRequest = NoRequest
    /\ page = PageIdle

(***************************************************************************)
(* IPAnalysisDB and the tables ip_analysis_sessions, ip_analysis_results.  *)
(***************************************************************************)

\* The most sessions and result rows stored.
MaxSessions == 1
MaxResults == 2

\* The migrations that set the policies of the two tables, in order:
\* throbbing_dune.sql:156-174, part_004:206-226, ProgramAnalyzer.tsx:829-867.
Migrations == {"throbbing_dune", "teams", "shared"}

\* Under the teams migration the policies of ip_analysis_sessions select from
\* team_members, whose own policies select from team_members: a statement of
\* an authenticated caller that reaches them fails with "infinite recursion
\* detected in policy for relation team_members".
PolicyRecursion == migration = "teams"

\* USING of the policy on ip_analysis_sessions (FOR ALL TO authenticated)
AnalysisSessionsUsing(c, row) ==
    /\ c.role = "authenticated"
    /\ IF migration = "shared" THEN TRUE ELSE SqlEq(c.uid, row.user_id)

\* WITH CHECK of the policy on ip_analysis_sessions; rows have no team_id set
AnalysisSessionsCheck(c, row) ==
    /\ c.role = "authenticated"
    /\ SqlEq(c.uid, row.user_id)

\* USING of the policy on ip_analysis_results (FOR ALL TO authenticated); it
\* has no WITH CHECK, so USING also checks new rows.
AnalysisResultsUsing(c, row) ==
    /\ c.role = "authenticated"
    /\ IF migration = "shared" THEN TRUE
       ELSE row.session_id \in {s.id : s \in {x \in aSessions :
                                   AnalysisSessionsUsing(c, x) /\ SqlEq(x.user_id, c.uid)}}

\* The lists of analysed addresses that saveResults is called with.
ResultLists == {<<"1.1.1.1">>, <<"1.1.1.1", "2.2.2.2">>}

NoSave == [session_id |-> 0, results |-> <<>>, ok |-> FALSE]

\* IPAnalysisDB.createSession, called by signed-in user u
createSession(u) ==
    LET c == Authenticated(u)
        row == [id |-> nextId, user_id |-> NULL, total_ips |-> 0]
        ok == /\ ~PolicyRecursion
              /\ AnalysisSessionsCheck(c, row)
              /\ AnalysisSessionsUsing(c, row)
    IN  /\ Cardinality(aSessions) < MaxSessions
        /\ ui' = [ui EXCEPT ![u].created = IF ok THEN "row" ELSE "null",
                            ![u].session = IF ok THEN row ELSE NoRow]
        /\ aSessions' = IF ok THEN aSessions \cup {row} ELSE aSessions
        /\ nextId' = IF ok THEN nextId + 1 ELSE nextId
        /\ UNCHANGED <<migration, aResults>>

\* An insert into ip_analysis_sessions through the API by caller c that sets
\* user_id, as the policy's WITH CHECK expects; a rejected insert changes
\* nothing.
ApiInsertSession(c, uid) ==
    LET row == [id |-> nextId, user_id |-> uid, total_ips |-> 0]
    IN  /\ Cardinality(aSessions) < MaxSessions
        /\ ~PolicyRecursion
        /\ AnalysisSessionsCheck(c, row)
        /\ aSessions' = aSessions \cup {row}
        /\ nextId' = nextId + 1
        /\ UNCHANGED <<migration, aResults, ui>>

\* IPAnalysisDB.saveResults(sessionId, results), called by signed-in user u
saveResults(u, sessionId, results) ==
    LET c == Authenticated(u)
        formattedResults ==
            {[id |-> <<nextId, i>>, session_id |-> sessionId, ip_address |-> results[i]] :
                i \in 1..Len(results)}
        ok == /\ ~PolicyRecursion
              /\ sessionId \in {s.id : s \in aSessions}
              /\ \A r \in formattedResults : AnalysisResultsUsing(c, r)
    IN  /\ Cardinality(aResults) + Len(results) <= MaxResults
        /\ ui' = [ui EXCEPT ![u].save = [session_id |-> sessionId, results |-> results,
                                         ok |-> ok]]
        /\ aResults' = IF ok THEN aResults \cup formattedResults ELSE aResults
        /\ aSessions' =
              IF ok
              THEN {IF s.id = sessionId /\ AnalysisSessionsUsing(c, s)
                       /\ AnalysisSessionsCheck(c, s)
                    THEN [s EXCEPT !.total_ips = Len(results)] ELSE s : s \in aSessions}
              ELSE aSessions
        /\ nextId' = IF ok THEN nextId + 1 ELSE nextId
        /\ UNCHANGED migration

\* IPAnalysisDB.getUserSessions for signed-in user u; [] on error
getUserSessions(u) ==
    IF PolicyRecursion THEN {}
    ELSE {s \in aSessions : AnalysisSessionsUsing(Authenticated(u), s) /\ SqlEq(s.user_id, u)}

\* IPAnalysisDB.getSessionResults(sessionId) for signed-in user u; [] on error
getSessionResults(u, sessionId) ==
    IF PolicyRecursion THEN {}
    ELSE {r \in aResults : AnalysisResultsUsing(Authenticated(u), r)
                           /\ r.session_id = sessionId}

\* IPAnalyzer.loadSessions
loadSessions(u) ==
    /\ ui' = [ui EXCEPT ![u].sessions = getUserSessions(u)]
    /\ UNCHANGED <<migration, aSessions, aResults, nextId>>

\* IPAnalyzer.loadSessionResults(sessionId), for a session of the list
loadSessionResults(u, sessionId) ==
    /\ ui' = [ui EXCEPT ![u].results = getSessionResults(u, sessionId)]
    /\ UNCHANGED <<migration, aSessions, aResults, nextId>>

NoUi ==
    [created |-> "no", session |-> NoRow, save |-> NoSave, sessions |-> {}, results |-> {}]

AnalysisIdle ==
    /\ migration = "shared"
    /\ aSessions = {}
    /\ aResults = {}
    /\ ui = [u \in Users |-> NoUi]

AnalysisInit ==
    /\ migration \in Migrations
    /\ aSessions = {}
    /\ aResults = {}
    /\ ui = [u \in Users |-> NoUi]

(***************************************************************************)
(* App, SystemDiagnostics and PublicIPQuery.                               *)
(***************************************************************************)

\* Longest input whose lines are enumerated one by one.
MaxLines == 2
\* PublicIPQuery.tsx:168  .slice(0, 100)
QueryCap == 100

Tabs == {"public", "tracking", "ip", "performance", "programs", "ipanalyzer"}

AppLoading == [loading |-> TRUE, user |-> NULL, activeTab |-> "public"]

PqIdle ==
    [pc |-> "idle", ipInput |-> <<>>, analyzedIPs |-> <<>>, isAnalyzing |-> FALSE,
     error |-> NULL, reached |-> FALSE]

AzIdle ==
    [pc |-> "idle", ipInput |-> <<>>, analyzedIPs |-> <<>>, isAnalyzing |-> FALSE,
     error |-> NULL, duplicates |-> {}, session |-> NoRow, failed |-> "none"]

UiIdle == app = AppLoading /\ pq = PqIdle /\ az = AzIdle

\* activeTab === 'public' && <PublicIPQuery />, inside SystemDiagnostics, which
\* App renders only when user is set (part_002:57-63)
PublicIPQueryRendered ==
    /\ ~app.loading
    /\ app.user # NULL
    /\ app.activeTab = "public"

\* supabase.auth.getSession() resolves with the session of user u, or none
SessionLoaded(u) ==
    /\ app.loading
    /\ app' = [app EXCEPT !.loading = FALSE, !.user = u]
    /\ UNCHANGED <<pq, az, proxyVars>>

\* onAuthStateChange: u signs in, or the user signs out (u = NULL); without a
\* user SystemDiagnostics and what it renders are unmounted and lose their state
AuthStateChange(u) ==
    /\ ~app.loading
    /\ app.user # u
    /\ app' = [app EXCEPT !.user = u,
                          !.activeTab = IF u = NULL THEN "public" ELSE @]
    /\ pq' = IF u = NULL THEN PqIdle ELSE pq
    /\ az' = IF u = NULL THEN AzIdle ELSE az
    /\ UNCHANGED proxyVars

\* A click on a tab of SystemDiagnostics
SelectTab(t) ==
    /\ ~app.loading
    /\ app.user # NULL
    /\ app.activeTab # t
    /\ app' = [app EXCEPT !.activeTab = t]
    /\ pq' = IF app.activeTab = "public" THEN PqIdle ELSE pq
    /\ az' = IF app.activeTab = "ipanalyzer" THEN AzIdle ELSE az
    /\ UNCHANGED proxyVars

\* A line of the textarea: the address it holds (0: nothing but white space)
\* and whether white space surrounds it.
Line(ip, ws) == [ip |-> ip, ws |-> ws]

\* String.prototype.trim on a line: the address, '' for a blank line
Trim(line) == line.ip

IsNonBlank(line) == Trim(line) # 0

\* !ipInput.trim()
BlankInput(lines) == \A i \in 1..Len(lines) : ~IsNonBlank(lines[i])

\* .slice(0, n)
Slice(s, n) == SubSeq(s, 1, IF Len(s) < n THEN Len(s) ELSE n)

\* [...new Set(s)]: the first occurrence of each element, in order
Unique(s) ==
    LET IsFirst(i) == \A j \in 1..(i - 1) : s[j] # s[i]
        first == SelectSeq([i \in 1..Len(s) |-> i], IsFirst)
    IN  [k \in 1..Len(first) |-> s[first[k]]]

\* PublicIPQuery.tsx:168-171  ips, uniqueIPs and queries of analyzeIP
PublicQueries(lines) ==
    LET ips == Slice(SelectSeq(lines, IsNonBlank), QueryCap)
        uniqueIPs == Unique([i \in 1..Len(ips) |-> Trim(ips[i])])
    IN  [i \in 1..Len(uniqueIPs) |-> <<<<"query", uniqueIPs[i]>>>>]

\* The inputs typed into the textarea.
SampleLines == {Line(0, TRUE), Line(1, FALSE), Line(1, TRUE), Line(2, FALSE)}

IpInputs ==
    {s \in SeqsUpTo(SampleLines, MaxLines) : ~BlankInput(s)}
    \cup {[i \in 1..n |-> Line(i, FALSE)] :
             n \in {MaxIPs, MaxIPs + 1, QueryCap, QueryCap + 1}}

\* The batch endpoint of ip-api.com answers a request with one entry per query.
BatchAnswer(requestText) ==
    LET items == JSONparse(requestText).items
    IN  Text(ArrayOf([i \in 1..Len(items) |->
                        <<<<"status", "success">>, <<"query", items[i][1][2]>>>>]), FALSE)

\* fetch resolves with the answer of the batch endpoint to the request sent
UpstreamBatch ==
    /\ pc = "fetching"
    /\ Settle([kind |-> "ok", status |-> "200", body |-> BatchAnswer(upReqs[1]),
               detail |-> NULL])

\* A click on the button of PublicIPQuery: analyzeIP up to its fetch of the
\* proxy (PublicIPQuery.tsx:161-180), which invokes the handler
PublicAnalyze(lines) ==
    /\ PublicIPQueryRendered
    /\ ~pq.isAnalyzing
    /\ ~BlankInput(lines)
    /\ pq' = [pq EXCEPT !.pc = "waiting", !.ipInput = lines, !.isAnalyzing = TRUE,
                        !.error = NULL, !.reached = FALSE]
    /\ Invoke("POST", JSONstringify(ArrayOf(PublicQueries(lines))))
    /\ UNCHANGED <<app, az>>

\* response.ok
ResponseOk(response) == response.statusCode >= 200 /\ response.statusCode <= 299

\* The one message of the catch block, here in English.
GenericMessage == "Cannot connect to the IP analysis service; check the network or retry later"

\* The proxy has answered: the rest of analyzeIP (PublicIPQuery.tsx:182-237)
PublicReceive ==
    /\ pq.pc = "waiting"
    /\ pc = "done"
    /\ LET data == JSONparse(resp.body)
           failed == ~ResponseOk(resp) \/ Thrown(data) \/ ~IsArray(data)
       IN  pq' = [pq EXCEPT !.pc = "done", !.isAnalyzing = FALSE, !.reached = TRUE,
                            !.error = IF failed THEN GenericMessage ELSE @,
                            !.analyzedIPs = IF failed THEN @ ELSE data.items]
    /\ UNCHANGED <<app, az, proxyVars>>

\* fetch rejects: the proxy is not reached or its answer is lost
PublicFetchRejects ==
    /\ pq.pc = "waiting"
    /\ pq' = [pq EXCEPT !.pc = "done", !.isAnalyzing = FALSE, !.error = GenericMessage]
    /\ UNCHANGED <<app, az, proxyVars>>

(***************************************************************************)
(* IPAnalyzer.analyzeIP.  The database and the proxy are seen through the  *)
(* answers analyzeIP gets from them.                                       *)
(***************************************************************************)

\* IPAnalyzer.tsx:163  .slice(0, 50)
AnalyzerCap == 50

\* activeTab === 'ipanalyzer' && <IPAnalyzer user={user} /> (part_001:253)
IPAnalyzerRendered ==
    /\ ~app.loading
    /\ app.user # NULL
    /\ app.activeTab = "ipanalyzer"

\* IPAnalyzer.tsx:163-164, 175  ips, uniqueIPs and queries of analyzeIP
AnalyzerQueries(lines) ==
    LET ips == Slice(SelectSeq(lines, IsNonBlank), AnalyzerCap)
        uniqueIPs == Unique([i \in 1..Len(ips) |-> Trim(ips[i])])
    IN  [i \in 1..Len(uniqueIPs) |-> <<<<"query", uniqueIPs[i]>>>>]

\* What checkDuplicates finds stored of earlier sessions: nothing (also when
\* its requests fail, IPAnalyzer.tsx:111-134), or address 1.
DuplicateSets == {{}, {1}}

\* The session row that a successful createSession returns.
CreatedSession == [id |-> 1, user_id |-> NULL, total_ips |-> 0]

\* A click on the button of IPAnalyzer: analyzeIP up to the call of
\* createSession (IPAnalyzer.tsx:156-170); checkDuplicates has answered
AnalyzerStart(lines, duplicates) ==
    /\ IPAnalyzerRendered
    /\ ~az.isAnalyzing
    /\ ~BlankInput(lines)
    /\ az' = [az EXCEPT !.pc = "creating", !.ipInput = lines, !.isAnalyzing = TRUE,
                        !.error = NULL, !.duplicates = duplicates,
                        !.session = NoRow, !.failed = "none"]
    /\ UNCHANGED <<app, pq, proxyVars>>

\* createSession has returned null: throw, catch, finally (l.171-173, 236-241)
AnalyzerSessionFailed ==
    /\ az.pc = "creating"
    /\ az' = [az EXCEPT !.pc = "done", !.isAnalyzing = FALSE, !.error = GenericMessage,
                        !.failed = "createSession"]
    /\ UNCHANGED <<app, pq, proxyVars>>

\* createSession has returned a session: the proxy is called (l.175-185)
AnalyzerSessionCreated ==
    /\ az.pc = "creating"
    /\ az' = [az EXCEPT !.pc = "waiting", !.session = CreatedSession]
    /\ Invoke("POST", JSONstringify(ArrayOf(AnalyzerQueries(az.ipInput))))
    /\ UNCHANGED <<app, pq>>

\* fetch of the proxy rejects (catch, finally)
AnalyzerFetchRejects ==
    /\ az.pc = "waiting"
    /\ az' = [az EXCEPT !.pc = "done", !.isAnalyzing = FALSE, !.error = GenericMessage,
                        !.failed = "fetch"]
    /\ UNCHANGED <<app, pq, proxyVars>>

\* results.filter(result => !result.isDuplicate); filterDuplicates is on
FinalResults(items, duplicates) ==
    LET NotDuplicate(item) == item[2][2] \notin duplicates
    IN  SelectSeq(items, NotDuplicate)

\* The proxy has answered (l.187-231): a non-OK response or one that is no
\* array throws; otherwise the results are shown and saveResults is called
AnalyzerReceive ==
    /\ az.pc = "waiting"
    /\ pc = "done"
    /\ LET data == JSONparse(resp.body)
           failed == ~ResponseOk(resp) \/ Thrown(data) \/ ~IsArray(data)
       IN  az' = IF failed
                 THEN [az EXCEPT !.pc = "done", !.isAnalyzing = FALSE,
                                 !.error = GenericMessage,
                                 !.failed = IF ResponseOk(resp) THEN "json" ELSE "notOk"]
                 ELSE [az EXCEPT !.pc = "saving",
                                 !.analyzedIPs = FinalResults(data.items, az.duplicates)]
    /\ UNCHANGED <<app, pq, proxyVars>>

\* saveResults has returned, true or false (part_001:284-329, which returns
\* false on an error); its value is not read: loadSessions, finally (l.231-241)
AnalyzerSaved(saved) ==
    /\ az.pc = "saving"
    /\ az' = [az EXCEPT !.pc = "done", !.isAnalyzing = FALSE,
                        !.failed = IF saved THEN "none" ELSE "saveResults"]
    /\ UNCHANGED <<app, pq, proxyVars>>

(***************************************************************************)
(* AlertSystem and the table alert_notifications.                          *)
(***************************************************************************)

\* The most rows stored in alert_notifications.
MaxAlerts == 2

\* part_000:811  expires_at DEFAULT (now() + interval '7 days'), in steps of
\* the clock
SevenDays == 1

\* USING and WITH CHECK of the policy on alert_notifications (FOR ALL TO
\* authenticated): auth.uid() = user_id
AlertsPolicy(c, row) ==
    /\ c.role = "authenticated"
    /\ SqlEq(c.uid, row.user_id)

\* A new row of alert_notifications with the defaults of its columns
AlertRow(uid) ==
    [id |-> nextId, user_id |-> uid, is_read |-> FALSE, created_at |-> now,
     expires_at |-> now + SevenDays]

NoAlertCall == [op |-> "none", caller |-> NULL, at |-> 0, table |-> {}, rows |-> <<>>]

AlertsIdle == alerts = {} /\ alertCall = NoAlertCall

\* AlertSystem.createAlert, called by signed-in user u: the row inserted
\* names no user_id; null is returned when the insert is refused
createAlert(u) ==
    LET row == AlertRow(NULL)
        ok == AlertsPolicy(Authenticated(u), row)
    IN  /\ Cardinality(alerts) < MaxAlerts
        /\ nextId <= MaxId
        /\ alerts' = IF ok THEN alerts \cup {row} ELSE alerts
        /\ nextId' = IF ok THEN nextId + 1 ELSE nextId
        /\ alertCall' = [op |-> "createAlert", caller |-> u, at |-> now, table |-> alerts,
                         rows |-> IF ok THEN <<row>> ELSE <<>>]

\* An insert into alert_notifications through the API by caller c that sets
\* user_id, as the policy expects; a refused insert changes nothing.
ApiInsertAlert(c, uid) ==
    LET row == AlertRow(uid)
    IN  /\ Cardinality(alerts) < MaxAlerts
        /\ nextId <= MaxId
        /\ AlertsPolicy(c, row)
        /\ alerts' = alerts \cup {row}
        /\ nextId' = nextId + 1
        /\ UNCHANGED alertCall

\* .order('created_at', { ascending: false }): the rows in an order in which
\* created_at never grows
NewestFirst(rows) ==
    {s \in SeqsUpTo(rows, MaxAlerts) :
        /\ Len(s) = Cardinality(rows)
        /\ {s[i] : i \in 1..Len(s)} = rows
        /\ \A i \in 1..(Len(s) - 1) : s[i].created_at >= s[i + 1].created_at}

\* AlertSystem.getUnreadAlerts, called by signed-in user u:
\* .eq('is_read', false).lt('expires_at', now).order('created_at', descending)
getUnreadAlerts(u) ==
    LET selected == {a \in alerts : /\ AlertsPolicy(Authenticated(u), a)
                                    /\ a.is_read = FALSE
                                    /\ a.expires_at < now}
    IN  /\ \E data \in NewestFirst(selected) :
              alertCall' = [op |-> "getUnreadAlerts", caller |-> u, at |-> now,
                            table |-> alerts, rows |-> data]
        /\ UNCHANGED <<alerts, nextId>>

\* AlertSystem.markAlertAsRead(alertId), called by signed-in user u
markAlertAsRead(u, alertId) ==
    /\ alerts' = {IF a.id = alertId /\ AlertsPolicy(Authenticated(u), a)
                  THEN [a EXCEPT !.is_read = TRUE] ELSE a : a \in alerts}
    /\ alertCall' = [op |-> "markAlertAsRead", caller |-> u, at |-> now, table |-> alerts,
                     rows |-> <<>>]
    /\ UNCHANGED nextId

\* AlertSystem.cleanupExpiredAlerts, called by signed-in user u:
\* .delete().lt('expires_at', now)
cleanupExpiredAlerts(u) ==
    /\ alerts' = {a \in alerts : ~(AlertsPolicy(Authenticated(u), a) /\ a.expires_at < now)}
    /\ alertCall' = [op |-> "cleanupExpiredAlerts", caller |-> u, at |-> now,
                     table |-> alerts, rows |-> <<>>]
    /\ UNCHANGED nextId

(***************************************************************************)
(* INSERT INTO visitor_ip_logs by transactions that run at the same time   *)
(* (READ COMMITTED): what a transaction has written is seen by the others  *)
(* once it has committed.                                                  *)
(***************************************************************************)

NoneInflight == inflight = {}

\* The statement up to the SELECT ... INTO session_record of the AFTER
\* trigger: the BEFORE trigger has run, the new row has its id, and
\* session_record is what the transaction sees of visitor_sessions.
BeginInsert(c) ==
    /\ Cardinality(logs) + Cardinality(inflight) < MaxLogs
    /\ nextId <= MaxId + MaxLogs
    /\ \E l \in links, ip \in VisitorIPs, sid \in SessionIds :
       \E ipAnalysis \in analyzeIPAddress(ip) :
          LET new0 == WithDefaults(LogRow(l.id, ip, "UA", NULL, sid, ipAnalysis)) IN
          \E prev_visit \in PrevVisitChoices(c, new0) :
             LET before == detect_ip_anomalies(c, new0, prev_visit) IN
             \E session_record \in SessionRecordChoices(c, before.new) :
                inflight' = inflight \cup
                    {[caller |-> c, new |-> before.new, error |-> before.error,
                      rows |-> before.rows, session_record |-> session_record]}
    /\ nextId' = nextId + 1
    /\ UNCHANGED <<links, logs, sessions, anomalies, now, lastRequest, page>>

\* The rest of transaction t: the UPDATE or INSERT of update_visitor_session
\* and the commit; an error anywhere leaves the tables as they were.
CommitInsert(t) ==
    LET c == t.caller
        new == t.new
        rowOk == /\ LogsInsertPolicy(c, new)
                 /\ new.tracking_link_id \in {l.id : l \in links}
        after == update_visitor_session(c, new, t.session_record)
        ok == ~t.error /\ rowOk /\ ~after.error
    IN  /\ t \in inflight
        /\ inflight' = inflight \ {t}
        /\ lastRequest' = [caller |-> c, table |-> "visitor_ip_logs", op |-> "insert",
                           returning |-> FALSE,
                           flagged |-> new.is_tor \/ new.is_vpn \/ new.is_hosting,
                           rows |-> IF ok THEN {new} ELSE {}]
        /\ IF ok
           THEN /\ logs' = logs \cup {new}
                /\ anomalies' = anomalies \cup t.rows
                /\ sessions' = after.sessions
           ELSE UNCHANGED <<logs, anomalies, sessions>>
        /\ UNCHANGED <<links, now, nextId, page>>

(***************************************************************************)
(* The specifications: one per part of the system, the other parts idle.   *)
(***************************************************************************)

InitProxy == ProxyInit /\ ThreatIdle /\ DbInit /\ AnalysisIdle /\ BurstIdle /\ UiIdle /\ AlertsIdle /\ NoneInflight

NextProxy ==
    \/ HandlerInvoke /\ UNCHANGED <<threatVars, dbVars, anVars, burstVars, uiVars, alertVars, raceVars>>
    \/ UpstreamOk /\ UNCHANGED <<threatVars, dbVars, anVars, burstVars, uiVars, alertVars, raceVars>>
    \/ UpstreamNotOk /\ UNCHANGED <<threatVars, dbVars, anVars, burstVars, uiVars, alertVars, raceVars>>
    \/ UpstreamNetworkError /\ UNCHANGED <<threatVars, dbVars, anVars, burstVars, uiVars, alertVars, raceVars>>

SpecProxy == InitProxy /\ [][NextProxy]_vars

InitBurst == ProxyInit /\ BurstIdle /\ ThreatIdle /\ DbInit /\ AnalysisIdle /\ UiIdle /\ AlertsIdle /\ NoneInflight

\* Successive invocations of the handler, counted.
NextBurst ==
    \/ BurstInvoke /\ UNCHANGED <<threatVars, dbVars, anVars, uiVars, alertVars, raceVars>>
    \/ UpstreamOk /\ UNCHANGED <<threatVars, dbVars, anVars, burstVars, uiVars, alertVars, raceVars>>
    \/ UpstreamNotOk /\ UNCHANGED <<threatVars, dbVars, anVars, burstVars, uiVars, alertVars, raceVars>>
    \/ UpstreamNetworkError /\ UNCHANGED <<threatVars, dbVars, anVars, burstVars, uiVars, alertVars, raceVars>>

SpecBurst == InitBurst /\ [][NextBurst]_vars

InitQuery == UiIdle /\ ProxyInit /\ BurstIdle /\ ThreatIdle /\ DbInit /\ AnalysisIdle /\ AlertsIdle /\ NoneInflight

\* App with PublicIPQuery, the handler it calls and the upstream API.
NextQuery ==
    \/ \E u \in Users \cup {NULL} :
          SessionLoaded(u) /\ UNCHANGED <<threatVars, dbVars, anVars, burstVars, alertVars, raceVars>>
    \/ \E u \in Users \cup {NULL} :
          AuthStateChange(u) /\ UNCHANGED <<threatVars, dbVars, anVars, burstVars, alertVars, raceVars>>
    \/ \E t \in Tabs : SelectTab(t) /\ UNCHANGED <<threatVars, dbVars, anVars, burstVars, alertVars, raceVars>>
    \/ \E lines \in IpInputs :
          PublicAnalyze(lines) /\ UNCHANGED <<threatVars, dbVars, anVars, burstVars, alertVars, raceVars>>
    \/ UpstreamBatch /\ UNCHANGED <<threatVars, dbVars, anVars, burstVars, uiVars, alertVars, raceVars>>
    \/ UpstreamNotOk /\ UNCHANGED <<threatVars, dbVars, anVars, burstVars, uiVars, alertVars, raceVars>>
    \/ UpstreamNetworkError /\ UNCHANGED <<threatVars, dbVars, anVars, burstVars, uiVars, alertVars, raceVars>>
    \/ PublicReceive /\ UNCHANGED <<threatVars, dbVars, anVars, burstVars, alertVars, raceVars>>
    \/ PublicFetchRejects /\ UNCHANGED <<threatVars, dbVars, anVars, burstVars, alertVars, raceVars>>

InitAnalyzer == UiIdle /\ ProxyInit /\ BurstIdle /\ ThreatIdle /\ DbInit /\ AnalysisIdle /\ AlertsIdle /\ NoneInflight

\* App with IPAnalyzer, the handler it calls and the upstream API.
NextAnalyzer ==
    \/ \E u \in Users \cup {NULL} :
          SessionLoaded(u) /\ UNCHANGED <<threatVars, dbVars, anVars, burstVars, alertVars, raceVars>>
    \/ \E u \in Users \cup {NULL} :
          AuthStateChange(u) /\ UNCHANGED <<threatVars, dbVars, anVars, burstVars, alertVars, raceVars>>
    \/ \E t \in Tabs : SelectTab(t) /\ UNCHANGED <<threatVars, dbVars, anVars, burstVars, alertVars, raceVars>>
    \/ \E lines \in IpInputs, duplicates \in DuplicateSets :
          AnalyzerStart(lines, duplicates) /\ UNCHANGED <<threatVars, dbVars, anVars, burstVars, alertVars, raceVars>>
    \/ AnalyzerSessionFailed /\ UNCHANGED <<threatVars, dbVars, anVars, burstVars, alertVars, raceVars>>
    \/ AnalyzerSessionCreated /\ UNCHANGED <<threatVars, dbVars, anVars, burstVars, alertVars, raceVars>>
    \/ UpstreamBatch /\ UNCHANGED <<threatVars, dbVars, anVars, burstVars, uiVars, alertVars, raceVars>>
    \/ UpstreamNotOk /\ UNCHANGED <<threatVars, dbVars, anVars, burstVars, uiVars, alertVars, raceVars>>
    \/ UpstreamNetworkError /\ UNCHANGED <<threatVars, dbVars, anVars, burstVars, uiVars, alertVars, raceVars>>
    \/ AnalyzerFetchRejects /\ UNCHANGED <<threatVars, dbVars, anVars, burstVars, alertVars, raceVars>>
    \/ AnalyzerReceive /\ UNCHANGED <<threatVars, dbVars, anVars, burstVars, alertVars, raceVars>>
    \/ \E saved \in BOOLEAN :
          AnalyzerSaved(saved) /\ UNCHANGED <<threatVars, dbVars, anVars, burstVars, alertVars, raceVars>>

SpecAnalyzer == InitAnalyzer /\ [][NextAnalyzer]_vars

InitAlerts == AlertsIdle /\ DbInit /\ ProxyInit /\ ThreatIdle /\ AnalysisIdle /\ BurstIdle /\ UiIdle /\ NoneInflight

\* Signed-in users of AlertSystem, the clock, and rows inserted through the API.
NextAlerts ==
    \/ \E u \in Users :
          createAlert(u) /\ UNCHANGED <<proxyVars, threatVars, trackVars, anVars, burstVars, uiVars, raceVars>>
    \/ \E c \in Callers, uid \in Users \cup {NULL} :
          ApiInsertAlert(c, uid) /\ UNCHANGED <<proxyVars, threatVars, trackVars, anVars, burstVars, uiVars, raceVars>>
    \/ Tick /\ UNCHANGED <<proxyVars, threatVars, anVars, burstVars, uiVars, alertVars, raceVars>>
    \/ \E u \in Users :
          getUnreadAlerts(u) /\ UNCHANGED <<proxyVars, threatVars, trackVars, anVars, burstVars, uiVars, raceVars>>
    \/ \E u \in Users, id \in 1..MaxId :
          markAlertAsRead(u, id) /\ UNCHANGED <<proxyVars, threatVars, trackVars, anVars, burstVars, uiVars, raceVars>>
    \/ \E u \in Users :
          cleanupExpiredAlerts(u) /\ UNCHANGED <<proxyVars, threatVars, trackVars, anVars, burstVars, uiVars, raceVars>>

SpecAlerts == InitAlerts /\ [][NextAlerts]_vars

InitRace == NoneInflight /\ AlertsIdle /\ DbInit /\ ProxyInit /\ ThreatIdle /\ AnalysisIdle /\ BurstIdle /\ UiIdle

\* Links, and rows inserted into visitor_ip_logs by concurrent transactions.
NextRace ==
    \/ \E c \in Callers, o \in LinkOptions :
          CreateTrackingLink(c, o) /\ UNCHANGED <<proxyVars, threatVars, anVars, burstVars, uiVars, alertVars, raceVars>>
    \/ \E c \in Callers :
          BeginInsert(c) /\ UNCHANGED <<proxyVars, threatVars, anVars, burstVars, uiVars, alertVars>>
    \/ \E t \in inflight :
          CommitInsert(t) /\ UNCHANGED <<proxyVars, threatVars, anVars, burstVars, uiVars, alertVars>>

SpecRace == InitRace /\ [][NextRace]_vars

\* Every step that can be taken is taken in the end: promises settle and the
\* page is not left alone for ever.
SpecQuery == InitQuery /\ [][NextQuery]_vars /\ WF_vars(NextQuery)

InitThreat == ThreatInit /\ ProxyInit /\ DbInit /\ AnalysisIdle /\ BurstIdle /\ UiIdle /\ AlertsIdle /\ NoneInflight

NextThreat ==
    \/ AssessIPAnalyzer /\ UNCHANGED <<proxyVars, dbVars, anVars, burstVars, uiVars, alertVars, raceVars>>
    \/ AssessPublicIPQuery /\ UNCHANGED <<proxyVars, dbVars, anVars, burstVars, uiVars, alertVars, raceVars>>
    \/ AssessVisitorTracking /\ UNCHANGED <<proxyVars, dbVars, anVars, burstVars, uiVars, alertVars, raceVars>>

SpecThreat == InitThreat /\ [][NextThreat]_vars

InitTracking == DbInit /\ ProxyInit /\ ThreatIdle /\ AnalysisIdle /\ BurstIdle /\ UiIdle /\ AlertsIdle /\ NoneInflight

\* Links, the clock, and rows inserted into visitor_ip_logs through the API.
NextTracking ==
    \/ \E c \in Callers, o \in LinkOptions :
          CreateTrackingLink(c, o) /\ UNCHANGED <<proxyVars, threatVars, anVars, burstVars, uiVars, alertVars, raceVars>>
    \/ Tick /\ UNCHANGED <<proxyVars, threatVars, anVars, burstVars, uiVars, alertVars, raceVars>>
    \/ \E c \in Callers : ApiInsertLog(c) /\ UNCHANGED <<proxyVars, threatVars, anVars, burstVars, uiVars, alertVars, raceVars>>

SpecTracking == InitTracking /\ [][NextTracking]_vars

InitPage == DbInit /\ ProxyInit /\ ThreatIdle /\ AnalysisIdle /\ BurstIdle /\ UiIdle /\ AlertsIdle /\ NoneInflight

\* Links, the clock, and visitors opening TrackingPage.
NextPage ==
    \/ \E c \in Callers, o \in LinkOptions :
          CreateTrackingLink(c, o) /\ UNCHANGED <<proxyVars, threatVars, anVars, burstVars, uiVars, alertVars, raceVars>>
    \/ \E c \in Callers, l \in links, a \in BOOLEAN :
          UpdateTrackingLink(c, l.id, a) /\ UNCHANGED <<proxyVars, threatVars, anVars, burstVars, uiVars, alertVars, raceVars>>
    \/ \E c \in Callers, l \in links :
          DeleteTrackingLink(c, l.id) /\ UNCHANGED <<proxyVars, threatVars, anVars, burstVars, uiVars, alertVars, raceVars>>
    \/ Tick /\ UNCHANGED <<proxyVars, threatVars, anVars, burstVars, uiVars, alertVars, raceVars>>
    \/ \E c \in Callers, code \in {l.link_code : l \in links} \cup {LinkCode(0)} :
          PageVisit(c, code) /\ UNCHANGED <<proxyVars, threatVars, anVars, burstVars, uiVars, alertVars, raceVars>>
    \/ PageLog /\ UNCHANGED <<proxyVars, threatVars, anVars, burstVars, uiVars, alertVars, raceVars>>

SpecPage == InitPage /\ [][NextPage]_vars

InitAccess == DbInit /\ ProxyInit /\ ThreatIdle /\ AnalysisIdle /\ BurstIdle /\ UiIdle /\ AlertsIdle /\ NoneInflight

\* Rows inserted through the API, then read, changed and deleted through it.
NextAccess ==
    \/ \E c \in Callers, o \in LinkOptions :
          CreateTrackingLink(c, o) /\ UNCHANGED <<proxyVars, threatVars, anVars, burstVars, uiVars, alertVars, raceVars>>
    \/ \E c \in Callers : ApiInsertLog(c) /\ UNCHANGED <<proxyVars, threatVars, anVars, burstVars, uiVars, alertVars, raceVars>>
    \/ \E c \in Callers, t \in TrackingTables :
          ApiSelect(c, t) /\ UNCHANGED <<proxyVars, threatVars, anVars, burstVars, uiVars, alertVars, raceVars>>
    \/ \E c \in Callers, t \in TrackingTables :
          ApiDelete(c, t) /\ UNCHANGED <<proxyVars, threatVars, anVars, burstVars, uiVars, alertVars, raceVars>>
    \/ \E c \in Callers : ApiUpdateSession(c) /\ UNCHANGED <<proxyVars, threatVars, anVars, burstVars, uiVars, alertVars, raceVars>>

SpecAccess == InitAccess /\ [][NextAccess]_vars

InitAnalysis == AnalysisInit /\ DbInit /\ ProxyInit /\ ThreatIdle /\ BurstIdle /\ UiIdle /\ AlertsIdle /\ NoneInflight

\* Signed-in users of IPAnalyzer, and requests to the API of its two tables.
NextAnalysis ==
    \/ \E u \in Users : createSession(u) /\ UNCHANGED <<proxyVars, threatVars, trackVars, burstVars, uiVars, alertVars, raceVars>>
    \/ \E c \in Callers, uid \in Users \cup {NULL} :
          ApiInsertSession(c, uid) /\ UNCHANGED <<proxyVars, threatVars, trackVars, burstVars, uiVars, alertVars, raceVars>>
    \/ \E u \in Users, sid \in {s.id : s \in aSessions} \cup {0}, rs \in ResultLists :
          saveResults(u, sid, rs) /\ UNCHANGED <<proxyVars, threatVars, trackVars, burstVars, uiVars, alertVars, raceVars>>
    \/ \E u \in Users : loadSessions(u) /\ UNCHANGED <<proxyVars, threatVars, trackVars, burstVars, uiVars, alertVars, raceVars>>
    \/ \E u \in Users : \E sid \in {s.id : s \in ui[u].sessions} \cup {0} :
          loadSessionResults(u, sid) /\ UNCHANGED <<proxyVars, threatVars, trackVars, burstVars, uiVars, alertVars, raceVars>>

SpecAnalysis == InitAnalysis /\ [][NextAnalysis]_vars

(***************************************************************************)
(* Claims about the ip-proxy handler, checked under SpecProxy.             *)
(***************************************************************************)

\* The current invocation is a POST whose body is a JSON array.
PostedArray ==
    /\ pc # "idle"
    /\ event.httpMethod = "POST"
    /\ event.body.value.kind = "array"

PostedLen == Len(event.body.value.items)

\* C1: a POST whose body is a JSON array of 51 or more entries is answered
\* with status 400 and nothing is sent upstream; an array of 0 to 50 entries
\* is forwarded upstream.
C1_CapAt50 ==
    PostedArray =>
        IF PostedLen >= 51
        THEN pc = "done" /\ resp.statusCode = 400 /\ upReqs = <<>>
        ELSE Len(upReqs) = 1

\* An array of exactly 50 entries went upstream.
C1_Witness ==
    PostedArray /\ PostedLen = 50 /\ Len(upReqs) = 1 /\ pc = "done"

\* The upstream call of the current invocation succeeded with a JSON body.
UpstreamSucceeded ==
    /\ pc = "done"
    /\ upResp.kind = "ok"
    /\ ~Thrown(JSONparse(upResp.body))

GenericErrorBody ==
    Text(ObjectOf(<<<<"error", "Internal server error">>,
                    <<"message", "Failed to analyze IP addresses">>>>), FALSE)

UpstreamFailed == pc = "done" /\ upResp.kind \in {"notok", "neterr"}

\* C10: an invocation makes at most one upstream request; when that request
\* fails the handler makes no further attempt and answers 500 with the fixed
\* generic body, which carries nothing of the upstream error.
C10_NoRetryGenericError ==
    /\ Len(upReqs) <= 1
    /\ UpstreamFailed =>
            /\ Len(upReqs) = 1
            /\ resp.statusCode = 500
            /\ resp.body = GenericErrorBody
            /\ \A i \in 1..Len(resp.body.value.members) :
                   resp.body.value.members[i][2] # upResp.detail

\* The upstream answered 429 and the handler answered 500.
C10_Witness ==
    UpstreamFailed /\ upResp.status = "429" /\ resp.statusCode = 500

\* C11: a POST whose body is not a JSON array (an object, a number, a string,
\* null, or text that is not JSON) is answered with status 400 and nothing is
\* sent upstream.
C11_InputValidation ==
    (pc = "done" /\ event.httpMethod = "POST" /\ ~IsArray(JSONparse(event.body)))
        => /\ resp.statusCode = 400
           /\ upReqs = <<>>

\* C12: OPTIONS is answered with 200 and an empty body, any other method
\* but POST with 405 and 'Method not allowed'; in both cases whatever the
\* body is, and nothing is sent upstream.
C12_OnlyPost ==
    (pc = "done" /\ event.httpMethod # "POST")
        => /\ upReqs = <<>>
           /\ upResp = NoResponse
           /\ IF event.httpMethod = "OPTIONS"
              THEN /\ resp.statusCode = 200
                   /\ resp.body.value.kind = "empty"
              ELSE /\ resp.statusCode = 405
                   /\ resp.body.value = [kind |-> "object", items |-> <<>>,
                                         members |-> <<<<"error", "Method not allowed">>>>]

\* A GET whose body is not even JSON has been answered with 405.
C12_Witness ==
    /\ pc = "done"
    /\ event.httpMethod = "GET"
    /\ event.body = InvalidText
    /\ resp.statusCode = 405

\* C13: there is a limit on the valid POSTs forwarded in succession: before
\* a burst reaches MaxBurst forwarded requests, one of them is turned away.
C13_RateLimited == served < MaxBurst

(***************************************************************************)
(* Claims about the threat assessors, checked under SpecThreat.            *)
(***************************************************************************)

\* The checks of the assessor that ran last that fire on its input, in order.
FiredChecks ==
    LET checks == IF tWho = "IPAnalyzer" THEN IPAnalyzerChecks(tIn)
                  ELSE IF tWho = "PublicIPQuery" THEN PublicIPQueryChecks(tIn)
                  ELSE IF tWho = "VisitorTrackingDB" THEN VisitorTrackingChecks(tIn)
                  ELSE <<>>
    IN  SelectSeq(checks, LAMBDA c : c.fires)

RECURSIVE WeightSum(_)
WeightSum(checks) ==
    IF checks = <<>> THEN 0 ELSE Head(checks).weight + WeightSum(Tail(checks))

\* C3: in each assessor the level depends only on the sum of the weights of
\* the checks that fire: high iff the sum is >= 5, medium iff it is 2, 3 or 4,
\* low iff it is 0 or 1; riskFactors has exactly one entry per check that
\* fired, so it is empty iff the sum is 0.
C3_ThreatBuckets ==
    tWho # "none" =>
        LET sum == WeightSum(FiredChecks) IN
        /\ (tOut.threat = "high") <=> (sum >= 5)
        /\ (tOut.threat = "medium") <=> (sum \in {2, 3, 4})
        /\ (tOut.threat = "low") <=> (sum \in {0, 1})
        /\ Len(tOut.riskFactors) = Len(FiredChecks)
        /\ \A i \in 1..Len(FiredChecks) : tOut.riskFactors[i] = FiredChecks[i].label
        /\ (tOut.riskFactors = <<>>) <=> (sum = 0)

\* IPAnalyzer assessed an entry whose fired weights sum to exactly 5.
C3_Witness ==
    /\ tWho = "IPAnalyzer"
    /\ WeightSum(FiredChecks) = 5
    /\ tOut.threat = "high"
    /\ Len(tOut.riskFactors) = 2

(***************************************************************************)
(* Claims about the visitor tracking tables.                               *)
(***************************************************************************)

\* The most recent geolocated rows stored before n for the same link and
\* session.
MostRecentEarlier(n) ==
    LET earlier == {l \in logs : /\ l.id < n.id
                                 /\ l.tracking_link_id = n.tracking_link_id
                                 /\ SqlEq(l.session_id, n.session_id)
                                 /\ l.location # NULL}
    IN  {l \in earlier : \A m \in earlier : m.created_at <= l.created_at}

RapidChange(n) ==
    /\ n.location # NULL
    /\ MostRecentEarlier(n) # {}
    /\ \A p \in MostRecentEarlier(n) :
          /\ n.created_at - p.created_at < OneHour
          /\ DistanceKm(p.location, n.location) > MaxKm

AnomaliesOf(n) == {a \in anomalies : a.visitor_log_id = n.id}

\* C4: a stored geolocated row has a 'rapid_location_change' anomaly of
\* severity high if and only if the most recent earlier geolocated row of the
\* same link and session is less than an hour older and more than 500 km away.
C4_RapidLocationChange ==
    \A n \in logs :
        n.location # NULL =>
            ((\E a \in AnomaliesOf(n) : /\ a.anomaly_type = "rapid_location_change"
                                        /\ a.severity = "high")
             <=> RapidChange(n))

Min(a, b) == IF a < b THEN a ELSE b

C6_TransactionalAnomalies ==
    /\ (lastRequest.op = "insert" /\ lastRequest.caller = Anon /\ lastRequest.flagged)
         => /\ lastRequest.rows # {}
            /\ \A r \in lastRequest.rows : r \in logs /\ AnomaliesOf(r) # {}
    /\ \A a \in anomalies : a.visitor_log_id \in {l.id : l \in logs}

\* C7: when a visitor who is not signed in has opened the page of an active,
\* unexpired link, the page has found the link and one row is stored for it.
C7_AnonymousVisitLogged ==
    (page.pc = "done" /\ page.caller = Anon /\ page.eligible)
        => /\ page.link # NoRow
           /\ page.error = NULL
           /\ page.stored = 1

\* The rows of the three tables that belong to a link owned by caller c.
OwnedBy(c, rows) ==
    {r \in rows : /\ c.role = "authenticated"
                  /\ \E l \in links : l.id = r.tracking_link_id /\ SqlEq(l.user_id, c.uid)}

\* C8: a select, update or delete on visitor_ip_logs, visitor_sessions or
\* ip_anomaly_detection reaches only rows of links the caller owns.
C8_OwnerOnlyAccess ==
    lastRequest.op \in {"select", "update", "delete"}
        => lastRequest.rows \subseteq OwnedBy(lastRequest.caller, lastRequest.rows)

RowsOf(l) == {r \in logs : r.tracking_link_id = l.id}

\* C14: a link with max_visits set never has more than max_visits rows in
\* visitor_ip_logs.
C14_MaxVisits ==
    \A l \in links : l.max_visits # NULLnum => Cardinality(RowsOf(l)) <= l.max_visits

\* C15: when the page is opened with a code that no link has, or of a link
\* that is inactive or expired at that time, trackVisit ends at once in the
\* error view with loading finished, and no row is sent or stored.
C15_NoLogForUnusableLink ==
    (page.pc # "idle" /\ ~page.eligible)
        => /\ page.pc = "done"
           /\ page.error # NULL
           /\ ~page.isLoading
           /\ page.sent = NoRow
           /\ page.stored = 0

\* The owner has opened the page of an expired link and got the error view.
C15_Witness ==
    /\ page.pc = "done"
    /\ page.error = "expired"
    /\ ~page.eligible
    /\ page.link # NoRow

\* C16: the row TrackingPage sends carries a user agent only if the link's
\* collect_user_agent is true and a referrer only if collect_referrer is
\* true; the same holds of the rows stored.
C16_CollectFlags ==
    /\ page.sent # NoRow =>
          /\ page.sent.user_agent # NULL => page.link.collect_user_agent
          /\ page.sent.referrer # NULL => page.link.collect_referrer
    /\ \A r \in logs : \A l \in links :
          l.id = r.tracking_link_id =>
             /\ r.user_agent # NULL => l.collect_user_agent
             /\ r.referrer # NULL => l.collect_referrer

\* The page has sent a row without user agent for a link that collects none.
C16_Witness ==
    /\ page.pc = "done"
    /\ page.sent # NoRow
    /\ ~page.link.collect_user_agent
    /\ page.sent.user_agent = NULL
    /\ page.sent.referrer # NULL

\* C20: when trackVisit has finished without error (the view '访问已记录'),
\* a row for the visit has been stored.
C20_SuccessMeansStored ==
    (page.pc = "done" /\ ~page.isLoading /\ page.error = NULL) => page.stored = 1

(***************************************************************************)
(* Claims about IPAnalysisDB.                                              *)
(***************************************************************************)

IpsOf(rows) == {r.ip_address : r \in rows}

ResultsOf(results) == {results[i] : i \in 1..Len(results)}

\* C9: createSession called by a signed-in user returns a session; once
\* saveResults for that session has succeeded, getUserSessions of that user
\* includes the session, getSessionResults returns the saved results, and no
\* other user's getUserSessions includes it.
C9_RoundTrip ==
    \A u \in Users :
        /\ ui[u].created # "no" => ui[u].created = "row"
        /\ (ui[u].created = "row" /\ ui[u].save.ok
              /\ ui[u].save.session_id = ui[u].session.id)
             => /\ ui[u].session.id \in {s.id : s \in getUserSessions(u)}
                /\ IpsOf(getSessionResults(u, ui[u].session.id)) = ResultsOf(ui[u].save.results)
                /\ \A v \in Users \ {u} :
                      ui[u].session.id \notin {s.id : s \in getUserSessions(v)}

(***************************************************************************)
(* Claims about PublicIPQuery and App.                                     *)
(***************************************************************************)

\* The distinct addresses among the non-blank lines of an input.
DistinctAddresses(lines) == {Trim(lines[i]) : i \in {j \in 1..Len(lines) : IsNonBlank(lines[j])}}

\* analyzeIP has finished, the proxy answered, and the upstream API did not
\* fail.
ServicesAvailable ==
    /\ pq.pc = "done"
    /\ pq.reached
    /\ upResp.kind \notin {"notok", "neterr"}

\* C17: for an input of 1 to 100 distinct non-blank lines, with the proxy and
\* the upstream API available, analyzeIP ends with one result per distinct
\* address and no error.
C17_HundredAddresses ==
    (ServicesAvailable /\ Cardinality(DistinctAddresses(pq.ipInput)) \in 1..QueryCap
       /\ Len(SelectSeq(pq.ipInput, IsNonBlank)) <= QueryCap)
        => /\ pq.error = NULL
           /\ {e[2][2] : e \in {pq.analyzedIPs[i] : i \in 1..Len(pq.analyzedIPs)}}
                 = DistinctAddresses(pq.ipInput)
           /\ Len(pq.analyzedIPs) = Cardinality(DistinctAddresses(pq.ipInput))

\* C18: at some time no user is signed in and PublicIPQuery is rendered.
C18_NoLoginNeeded ==
    <>(~app.loading /\ app.user = NULL /\ app.activeTab = "public" /\ PublicIPQueryRendered)

(***************************************************************************)
(* Claims about IPAnalyzer.analyzeIP, checked under SpecAnalyzer.          *)
(***************************************************************************)

RowsIn(rows) == {rows[i] : i \in 1..Len(rows)}

\* C21: getUnreadAlerts returns exactly the caller's alerts that are not read
\* and whose expires_at is in the future, newest first.
C21_UnreadAlerts ==
    alertCall.op = "getUnreadAlerts"
        => /\ RowsIn(alertCall.rows)
                = {a \in alertCall.table : /\ a.user_id = alertCall.caller
                                           /\ ~a.is_read
                                           /\ a.expires_at > alertCall.at}
           /\ \A i \in 1..(Len(alertCall.rows) - 1) :
                 alertCall.rows[i].created_at >= alertCall.rows[i + 1].created_at

(***************************************************************************)
(* Claims about visitor_sessions, checked under SpecTracking.              *)
(***************************************************************************)

\* The stored logs of the session that a visitor_sessions row stands for.
VisitsOf(s) ==
    {l \in logs : l.tracking_link_id = s.tracking_link_id /\ l.session_id = s.session_id}

\* No element of the array is null and none occurs twice.
EachOnce(arr, null) ==
    /\ \A i \in 1..Len(arr) : arr[i] # null
    /\ \A i, j \in 1..Len(arr) : arr[i] = arr[j] => i = j

\* C23: in every visitor_sessions row unique_ips, countries and user_agents
\* hold each distinct value of the session's visits once and nothing else:
\* no duplicates, no null entries.
C23_UniqueArrays ==
    \A s \in sessions :
        /\ EachOnce(s.unique_ips, NULLtext)
        /\ RowsIn(s.unique_ips) = {InetText(l.ip_address) : l \in VisitsOf(s)}
        /\ Len(s.unique_ips) = Cardinality({l.ip_address : l \in VisitsOf(s)})
        /\ EachOnce(s.countries, NULL)
        /\ RowsIn(s.countries) = {l.country : l \in VisitsOf(s)} \ {NULL}
        /\ EachOnce(s.user_agents, NULL)
        /\ RowsIn(s.user_agents) = {l.user_agent : l \in VisitsOf(s)} \ {NULL}

(***************************************************************************)
(* Claims about concurrent inserts, checked under SpecRace.                *)
(***************************************************************************)

\* The visitor_sessions rows of a (tracking_link_id, session_id) pair.
SessionsOf(pair) ==
    {s \in sessions : s.tracking_link_id = pair[1] /\ s.session_id = pair[2]}

\* C22: once every insert has committed, each (tracking_link_id, session_id)
\* pair that has a log has exactly one visitor_sessions row, whose
\* total_visits is the number of logs stored for the pair.
C22_OneSessionPerPair ==
    inflight = {}
        => \A pair \in {<<l.tracking_link_id, l.session_id>> : l \in logs} :
              /\ Cardinality(SessionsOf(pair)) = 1
              /\ \A s \in SessionsOf(pair) : s.total_visits = Cardinality(VisitsOf(s))

====
